---------------------------- MODULE Spec2Model ----------------------------
(***************************************************************************)
(* A model of jd3655/imagetojson: receipt_io.py (archive extraction,       *)
(* receipt discovery, page ordering, output writing, packaging) and        *)
(* app.py (load_zip, _run_model, convert_selected).                        *)
(*                                                                         *)
(* Strings of the program whose characters matter (paths, file names,      *)
(* receipt names) are sequences of one-character strings; a path is the    *)
(* sequence of its components below the filesystem root.  The disk is a    *)
(* function from the paths of its regular files to their contents;         *)
(* directories are the proper prefixes of those paths.                     *)
(***************************************************************************)
EXTENDS Integers, Sequences, FiniteSets, TLC

VARIABLES
    disk,       \* the filesystem: path of a regular file -> its content
    pc,         \* position of the running handler: "idle", "loop", "await1", "await2"
    tempdir,    \* gr.State tempdir_state: the working directory, NoDir before an upload
    receipts,   \* the receipts load_zip / convert_selected / discover_receipts last discovered
    call,       \* the handler call in progress or last made, with its arguments
    err,        \* the exception the last call raised, "none" when it returned
    idx,        \* convert_selected: position in `selected` of the loop at app.py:82
    requests,   \* model requests the current convert_selected call has sent, with their replies
    writes,     \* write_output calls the current convert_selected call has made
    written,    \* every file write_output produced in the working directory: path -> last content
    bundle,     \* entries of the outputs.zip the last build_outputs_zip wrote
    nCalls      \* number of handler calls made so far

vars == <<disk, pc, tempdir, receipts, call, err, idx, requests, writes, written, bundle, nCalls>>

(***************************************************************************)
(* Characters and strings.                                                 *)
(***************************************************************************)

\* The characters the model uses, in ASCII order.
AsciiOrder ==
    <<" ", "-", ".", "/", "0", "1", "2", "3", "4", "5", "6", "7", "8", "9",
      "A", "B", "C", "D", "E", "F", "G", "H", "I", "J", "K", "L", "M", "N",
      "O", "P", "Q", "R", "S", "T", "U", "V", "W", "X", "Y", "Z", "\\", "_",
      "a", "b", "c", "d", "e", "f", "g", "h", "i", "j", "k", "l", "m", "n",
      "o", "p", "q", "r", "s", "t", "u", "v", "w", "x", "y", "z">>

Chars == {AsciiOrder[i] : i \in 1..Len(AsciiOrder)}

\* ord(c), up to the offset of the first character.
OrdTable == [c \in Chars |-> CHOOSE i \in 1..Len(AsciiOrder) : AsciiOrder[i] = c]

Ord(c) == OrdTable[c]

IsDigit(c) == Ord(c) >= Ord("0") /\ Ord(c) <= Ord("9")

DigitValue(c) == Ord(c) - Ord("0")

IsUpper(c) == Ord(c) >= Ord("A") /\ Ord(c) <= Ord("Z")

\* str.lower / re.IGNORECASE on one character.
Lower(c) == IF IsUpper(c) THEN AsciiOrder[Ord("a") + (Ord(c) - Ord("A"))] ELSE c

LowerStr(s) == [i \in 1..Len(s) |-> Lower(s[i])]

\* Python's str < str: lexicographic by code point.
RECURSIVE StrLess(_, _)
StrLess(a, b) ==
    IF b = <<>> THEN FALSE
    ELSE IF a = <<>> THEN TRUE
    ELSE IF a[1] # b[1] THEN Ord(a[1]) < Ord(b[1])
    ELSE StrLess(Tail(a), Tail(b))

StartsWith(s, prefix) ==
    Len(prefix) <= Len(s) /\ SubSeq(s, 1, Len(prefix)) = prefix

\* str.split(sep) for a one-character separator.
RECURSIVE SplitOn(_, _)
SplitOn(s, sep) ==
    IF \A i \in 1..Len(s) : s[i] # sep THEN <<s>>
    ELSE LET k == CHOOSE i \in 1..Len(s) :
                      s[i] = sep /\ \A j \in 1..(i - 1) : s[j] # sep
         IN  <<SubSeq(s, 1, k - 1)>> \o SplitOn(SubSeq(s, k + 1, Len(s)), sep)

\* sep.join(parts)
RECURSIVE JoinWith(_, _)
JoinWith(parts, sep) ==
    IF parts = <<>> THEN <<>>
    ELSE IF Len(parts) = 1 THEN parts[1]
    ELSE parts[1] \o <<sep>> \o JoinWith(Tail(parts), sep)

RECURSIVE FilterSeq(_, _)
FilterSeq(s, keep) ==
    IF s = <<>> THEN <<>>
    ELSE (IF s[1] \in keep THEN <<s[1]>> ELSE <<>>) \o FilterSeq(Tail(s), keep)

RECURSIVE DropAll(_, _)
DropAll(s, drop) ==
    IF s = <<>> THEN <<>>
    ELSE (IF s[1] \in drop THEN <<>> ELSE <<s[1]>>) \o DropAll(Tail(s), drop)

(***************************************************************************)
(* Paths (pathlib on POSIX).                                               *)
(***************************************************************************)

\* str(Path): "/" followed by the components joined with "/".
PathStr(p) == <<"/">> \o JoinWith(p, "/")

\* Path(dest_dir, filename): an absolute filename replaces dest_dir; empty and
\* "." components are dropped, ".." components are kept.
PathOf(dest, filename) ==
    LET parts == DropAll(SplitOn(filename, "/"), {<<>>, <<".">>})
    IN  IF filename # <<>> /\ filename[1] = "/" THEN parts ELSE dest \o parts

\* Path.resolve() where no component is a symbolic link: ".." removes the
\* component before it, and stays at the root when there is none.
RECURSIVE ResolveFrom(_, _)
ResolveFrom(done, rest) ==
    IF rest = <<>> THEN done
    ELSE IF rest[1] = <<".", ".">>
         THEN ResolveFrom(IF done = <<>> THEN <<>> ELSE SubSeq(done, 1, Len(done) - 1),
                          Tail(rest))
         ELSE ResolveFrom(Append(done, rest[1]), Tail(rest))

Resolve(p) == ResolveFrom(<<>>, p)

IsPrefix(p, q) == Len(p) <= Len(q) /\ SubSeq(q, 1, Len(p)) = p


(***************************************************************************)
(* The filesystem.                                                         *)
(***************************************************************************)

IsFile(d, p) == p \in DOMAIN d

IsDir(d, p) == \E q \in DOMAIN d : IsPrefix(p, q) /\ Len(q) > Len(p)

\* Path.iterdir(): the immediate children of a directory.
IterDir(d, dir) ==
    {SubSeq(q, 1, Len(dir) + 1) : q \in {r \in DOMAIN d : IsPrefix(dir, r) /\ Len(r) > Len(dir)}}

\* Path.write_text / the write of one extracted member.
WriteFile(d, p, content) ==
    [q \in (DOMAIN d) \cup {p} |-> IF q = p THEN content ELSE d[q]]

\* shutil.rmtree(dir, ignore_errors=True)
RmTree(d, dir) == [q \in {r \in DOMAIN d : ~IsPrefix(dir, r)} |-> d[q]]

\* Path.name
Name(p) == p[Len(p)]

\* The index of the last "." of a name, 0 when it has none (str.rfind + 1).
LastDot(name) ==
    IF \E i \in 1..Len(name) : name[i] = "."
    THEN CHOOSE i \in 1..Len(name) :
             name[i] = "." /\ \A j \in (i + 1)..Len(name) : name[j] # "."
    ELSE 0

\* Path.suffix: from the last dot, unless the dot is the first or the last character.
Suffix(name) ==
    LET k == LastDot(name)
    IN  IF 1 < k /\ k < Len(name) THEN SubSeq(name, k, Len(name)) ELSE <<>>

\* Path.stem
Stem(name) ==
    LET k == LastDot(name)
    IN  IF 1 < k /\ k < Len(name) THEN SubSeq(name, 1, k - 1) ELSE name

(***************************************************************************)
(* receipt_io.py                                                           *)
(***************************************************************************)

PNG_EXTENSIONS == {<<".", "p", "n", "g">>, <<".", "P", "N", "G">>}

\* str.strip() on a string whose only whitespace character is the space.
RECURSIVE Strip(_)
Strip(s) ==
    IF s = <<>> THEN s
    ELSE IF s[1] = " " THEN Strip(Tail(s))
    ELSE IF s[Len(s)] = " " THEN Strip(SubSeq(s, 1, Len(s) - 1))
    ELSE s

sanitize_filename(name) ==
    Strip([i \in 1..Len(name) |-> IF name[i] \in {"/", "\\"} THEN "_" ELSE name[i]])

\* The test of receipt_io.py:46 for one member: TRUE when the member is refused.
MemberRefused(dest, filename) ==
    ~StartsWith(PathStr(Resolve(PathOf(dest, filename))), PathStr(Resolve(dest)))

\* ZipFile.extractall(dest): each member is written below dest under its name
\* with the empty, "." and ".." components removed (zipfile._extract_member).
RECURSIVE ExtractAll(_, _, _)
ExtractAll(d, zip, dest) ==
    IF zip = <<>> THEN d
    ELSE LET target == dest \o DropAll(SplitOn(zip[1].filename, "/"),
                                       {<<>>, <<".">>, <<".", ".">>})
         IN  ExtractAll(WriteFile(d, target, zip[1].data), Tail(zip), dest)

TraversalError == "ValueError: Unsafe path detected in zip"

\* safe_extract_zip with each member extracted as soon as it has passed the test.
RECURSIVE safe_extract_zip_memberwise(_, _, _)
safe_extract_zip_memberwise(d, zip, dest) ==
    IF zip = <<>> THEN [err |-> "none", disk |-> d]
    ELSE IF MemberRefused(dest, zip[1].filename) THEN [err |-> TraversalError, disk |-> d]
    ELSE safe_extract_zip_memberwise(ExtractAll(d, <<zip[1]>>, dest), Tail(zip), dest)

\* safe_extract_zip: every member is tested first; extraction starts after the loop.
safe_extract_zip(d, zip, dest) ==
    IF \E i \in 1..Len(zip) : MemberRefused(dest, zip[i].filename)
    THEN [err |-> TraversalError, disk |-> d]
    ELSE [err |-> "none", disk |-> ExtractAll(d, zip, dest)]

\* int(digits)
RECURSIVE IntOf(_)
IntOf(s) ==
    IF s = <<>> THEN 0 ELSE 10 * IntOf(SubSeq(s, 1, Len(s) - 1)) + DigitValue(s[Len(s)])

\* The end of the run of digits that starts at s[i].
RECURSIVE DigitRunEnd(_, _)
DigitRunEnd(s, i) ==
    IF i < Len(s) /\ IsDigit(s[i + 1]) THEN DigitRunEnd(s, i + 1) ELSE i

\* Where the group (\d+) of page[_-]?(\d+) starts when the pattern matches at
\* s[i], 0 when it does not match there (re.IGNORECASE).
PageMatchAt(s, i) ==
    IF i + 4 <= Len(s) /\ LowerStr(SubSeq(s, i, i + 3)) = <<"p", "a", "g", "e">>
    THEN IF IsDigit(s[i + 4]) THEN i + 4
         ELSE IF s[i + 4] \in {"_", "-"} /\ i + 5 <= Len(s) /\ IsDigit(s[i + 5]) THEN i + 5
         ELSE 0
    ELSE 0

\* _page_sort_key: (number, name); inf stands for float("inf").
page_sort_key(name) ==
    LET stem == Stem(name)
        hits == {i \in 1..Len(stem) : PageMatchAt(stem, i) > 0}
        digs == {i \in 1..Len(stem) : IsDigit(stem[i])}
    IN  IF hits # {}
        THEN LET i == CHOOSE h \in hits : \A g \in hits : h <= g
                 j == PageMatchAt(stem, i)
             IN  [inf |-> FALSE, n |-> IntOf(SubSeq(stem, j, DigitRunEnd(stem, j))), name |-> name]
        ELSE IF digs # {}
        THEN LET e == CHOOSE h \in digs : \A g \in digs : g <= h
                 b == CHOOSE h \in 1..e :
                          /\ \A g \in h..e : IsDigit(stem[g])
                          /\ (h = 1 \/ ~IsDigit(stem[h - 1]))
             IN  [inf |-> FALSE, n |-> IntOf(SubSeq(stem, b, e)), name |-> name]
        ELSE [inf |-> TRUE, n |-> 0, name |-> name]

\* Python's tuple comparison of two keys.
KeyLess(a, b) ==
    IF a.inf # b.inf THEN b.inf
    ELSE IF ~a.inf /\ a.n # b.n THEN a.n < b.n
    ELSE StrLess(a.name, b.name)

\* sorted(paths): paths of one directory compare by their names.
RECURSIVE SortedByName(_)
SortedByName(S) ==
    IF S = {} THEN <<>>
    ELSE LET m == CHOOSE p \in S : \A q \in S \ {p} : StrLess(Name(p), Name(q))
         IN  <<m>> \o SortedByName(S \ {m})

\* The paths of S in ascending order of their keys.
RECURSIVE SortedByKey(_, _)
SortedByKey(S, key) ==
    IF S = {} THEN <<>>
    ELSE LET m == CHOOSE p \in S : \A q \in S \ {p} : KeyLess(key[p], key[q])
         IN  <<m>> \o SortedByKey(S \ {m}, key)

\* sorted(paths): the pages in the order of their names alone.
SortedByPageName(S) == SortedByName(S)

\* sorted(paths, key=_page_sort_key)
SortedByPageKey(S) == SortedByKey(S, [p \in S |-> page_sort_key(Name(p))])

\* The filter of receipt_io.py:73.
IsPage(d, p) == IsFile(d, p) /\ Suffix(Name(p)) \in PNG_EXTENSIONS

\* The pages of one directory (receipt_io.py:70-74).
PagesOf(d, entry) ==
    LET sorted == SortedByPageKey(IterDir(d, entry))
    IN  FilterSeq(sorted, {p \in IterDir(d, entry) : IsPage(d, p)})

RECURSIVE GroupsOf(_, _)
GroupsOf(d, entries) ==
    IF entries = <<>> THEN <<>>
    ELSE LET e     == entries[1]
             pages == IF IsDir(d, e) THEN PagesOf(d, e) ELSE <<>>
         IN  (IF pages # <<>> THEN <<[name |-> Name(e), pages |-> pages]>> ELSE <<>>)
                 \o GroupsOf(d, Tail(entries))

discover_receipts(d, root) == GroupsOf(d, SortedByName(IterDir(d, root)))

\* base64 of a file's bytes, as the text of them: an injective encoding.
B64(data) == <<"b64", data>>

encode_image_to_data_url(d, p) == <<"data:image/png;base64,", B64(d[p])>>

Ext(fmt) == IF fmt = "markdown" THEN <<"m", "d">> ELSE <<"j", "s", "o", "n">>

\* The path write_output writes.
OutputPath(receipt_name, fmt, output_dir) ==
    PathOf(output_dir, sanitize_filename(receipt_name) \o <<".">> \o Ext(fmt))

write_output(d, receipt_name, content, fmt, output_dir) ==
    WriteFile(d, OutputPath(receipt_name, fmt, output_dir), content)

\* build_outputs_zip: the regular files of output_dir, sorted, under their bare names.
build_outputs_zip(d, output_dir) ==
    LET files == SortedByName({p \in IterDir(d, output_dir) : IsFile(d, p)})
    IN  [i \in 1..Len(files) |-> [name |-> Name(files[i]), content |-> d[files[i]]]]


(***************************************************************************)
(* llama_client.py and prompts.py                                          *)
(***************************************************************************)

\* message.content of a completion that carries no text.
None == "<None>"

\* `response.choices[0].message.content or ""` of chat_markdown and chat_json.
ChatText(content) == IF content = None THEN "" ELSE content

\* What the model service may answer with.
ModelContents == {"{\"total\": 1}", "{oops"}

\* json.loads(text): TRUE when it returns, FALSE when it raises JSONDecodeError.
JsonLoads(text) == text \in {"{\"total\": 1}"}

JSON_REPAIR_PROMPT == "The previous response was not valid JSON. Return ONLY valid JSON that conforms to the requested schema. Do not include explanations or markdown."

(***************************************************************************)
(* app.py                                                                  *)
(***************************************************************************)

\* _build_prompt: f"{base}\n\n{guidance}", the guidance ending in the document name.
build_prompt(name, fmt) ==
    <<IF fmt = "markdown" THEN "MARKDOWN_INSTRUCTION" ELSE "JSON_INSTRUCTION",
      "\n\n", "This is ONE receipt/invoice spanning multiple pages; ... Document name: ",
      name, ".">>

\* The request of app.py:58 / app.py:60: the prompt and every page of the receipt.
FirstRequest(d, receipt, fmt) ==
    [text   |-> build_prompt(receipt.name, fmt),
     images |-> [i \in 1..Len(receipt.pages) |-> encode_image_to_data_url(d, receipt.pages[i])],
     json   |-> fmt # "markdown"]

\* The request of app.py:66.
RepairRequest(response) ==
    [text |-> <<JSON_REPAIR_PROMPT, "\n\n", response>>, images |-> <<>>, json |-> TRUE]

NoDir == <<>>

NoZip == <<>>

NoErr == [type |-> "none", cause |-> "none"]

Pending == "<pending>"

Failure == "<raised>"

NoCall == [op |-> "none", zip |-> NoZip, dest |-> NoDir, selected |-> <<>>, fmt |-> "none",
           built |-> FALSE]

\* Path(tempdir) / "outputs"
OutputDir(dir) == Append(dir, <<"o", "u", "t", "p", "u", "t", "s">>)

\* receipt_map.get(name)
ReceiptNames(rs) == {rs[i].name : i \in 1..Len(rs)}

ReceiptNamed(rs, name) == rs[CHOOSE i \in 1..Len(rs) : rs[i].name = name]

(***************************************************************************)
(* Inputs.                                                                 *)
(***************************************************************************)

\* The directory prepare_workdir creates: tempfile.mkdtemp(prefix="receipts_").
WorkDir == <<<<"t", "m", "p">>, <<"r", "e", "c", "e", "i", "p", "t", "s", "_", "k", "7">>>>

\* Destination roots of direct safe_extract_zip calls.
DestRoots == {<<<<"t", "m", "p">>, <<"r", "e", "c", "e", "i", "p", "t", "s", "_", "a", "b">>>>, <<<<"t", "m", "p">>, <<"w">>>>}

\* Archives: the members in archive order.
ZipPlain ==
    <<[filename |-> <<"r", "1", "/", "p", "2", ".", "p", "n", "g">>, data |-> "img1"],
      [filename |-> <<"r", "1", "/", "p", "1", ".", "p", "n", "g">>, data |-> "img2"],
      [filename |-> <<"r", "2", "/", "p", "1", ".", "p", "n", "g">>, data |-> "img3"]>>

ZipBackslash ==
    <<[filename |-> <<"a", "_", "b", "/", "p", "1", ".", "p", "n", "g">>, data |-> "img1"],
      [filename |-> <<"a", "\\", "b", "/", "p", "1", ".", "p", "n", "g">>, data |-> "img2"]>>

ZipOutputsFolder ==
    <<[filename |-> <<"o", "u", "t", "p", "u", "t", "s", "/", "p", "1", ".", "p", "n", "g">>, data |-> "img1"],
      [filename |-> <<"r", "1", "/", "p", "1", ".", "p", "n", "g">>, data |-> "img2"]>>

ZipSafeThenUnsafe ==
    <<[filename |-> <<"r", "1", "/", "p", "1", ".", "p", "n", "g">>, data |-> "img1"],
      [filename |-> <<".", ".", "/", "e", "v", "i", "l", ".", "p", "n", "g">>, data |-> "img2"]>>

ZipNoPages ==
    <<[filename |-> <<"n", "o", "t", "e", "s", "/", "r", "e", "a", "d", "m", "e", ".", "t", "x", "t">>, data |-> "txt1"]>>

ZipSibling ==
    <<[filename |-> <<".", ".", "/", "r", "e", "c", "e", "i", "p", "t", "s", "_", "a", "b", "c", "/", "x", ".", "p", "n", "g">>, data |-> "img1"]>>

ZipSafeThenSibling ==
    <<[filename |-> <<"r", "1", "/", "p", "1", ".", "p", "n", "g">>, data |-> "img1"],
      [filename |-> <<".", ".", "/", "r", "e", "c", "e", "i", "p", "t", "s", "_", "a", "b", "c", "/", "x", ".", "p", "n", "g">>, data |-> "img2"]>>

ZipAbsolute ==
    <<[filename |-> <<"/", "e", "t", "c", "/", "x", ".", "p", "n", "g">>, data |-> "img1"]>>

ZipDotDotInside ==
    <<[filename |-> <<"r", "2", "/", ".", ".", "/", "r", "3", "/", "p", "2", ".", "p", "n", "g">>, data |-> "img1"]>>

ZipIntoW ==
    <<[filename |-> <<"r", "1", "/", "p", "1", ".", "p", "n", "g">>, data |-> "img1"],
      [filename |-> <<".", ".", "/", "w", "/", "p", ".", "p", "n", "g">>, data |-> "img2"]>>

UploadArchives == {ZipPlain, ZipBackslash, ZipOutputsFolder, ZipSafeThenUnsafe, ZipNoPages}

ExtractArchives ==
    {ZipPlain, ZipSafeThenUnsafe, ZipSibling, ZipSafeThenSibling, ZipAbsolute,
     ZipDotDotInside, ZipIntoW}

\* A name the upload did not bring: a stale entry of the selection.
StaleName == <<"z", "z">>

MaxSelected == 2

MaxCalls == 2

MaxExtracts == 2

\* The values a gr.CheckboxGroup can hold: sequences of distinct choices.
RECURSIVE SeqsUpTo(_, _)
SeqsUpTo(S, n) ==
    IF n = 0 THEN {<<>>}
    ELSE LET shorter == SeqsUpTo(S, n - 1)
             more    == {qx \in shorter \X S : \A i \in 1..Len(qx[1]) : qx[1][i] # qx[2]}
         IN  shorter \cup {Append(qx[1], qx[2]) : qx \in more}

(***************************************************************************)
(* The state after construction, and the handlers.                         *)
(***************************************************************************)

Init ==
    /\ disk = <<>>
    /\ pc = "idle"
    /\ tempdir = NoDir
    /\ receipts = <<>>
    /\ call = NoCall
    /\ err = NoErr
    /\ idx = 0
    /\ requests = <<>>
    /\ writes = <<>>
    /\ written = <<>>
    /\ bundle = <<>>
    /\ nCalls = 0

\* A direct call of receipt_io.safe_extract_zip(zip, dest).
SafeExtractZipCall(zip, dest) ==
    /\ pc = "idle"
    /\ nCalls < MaxExtracts
    /\ LET r == safe_extract_zip(disk, zip, dest)
       IN  /\ disk' = r.disk
           /\ err' = [type |-> r.err, cause |-> "none"]
    /\ call' = [NoCall EXCEPT !.op = "safe_extract_zip", !.zip = zip, !.dest = dest]
    /\ nCalls' = nCalls + 1
    /\ UNCHANGED <<pc, tempdir, receipts, idx, requests, writes, written, bundle>>

\* load_zip(zip_file): one upload per working directory.
LoadZip(zip) ==
    /\ pc = "idle"
    /\ tempdir = NoDir
    /\ call' = [NoCall EXCEPT !.op = "load_zip", !.zip = zip, !.dest = WorkDir]
    /\ IF zip = NoZip
       THEN /\ err' = [type |-> "gr.Error", cause |-> "Please upload a ZIP file containing receipts."]
            /\ UNCHANGED <<disk, tempdir, receipts>>
       ELSE LET r     == safe_extract_zip(disk, zip, WorkDir)
                found == discover_receipts(r.disk, WorkDir)
            IN  IF r.err # "none"
                THEN /\ disk' = RmTree(r.disk, WorkDir)
                     /\ err' = [type |-> "gr.Error", cause |-> r.err]
                     /\ UNCHANGED <<tempdir, receipts>>
                ELSE IF found = <<>>
                THEN /\ disk' = RmTree(r.disk, WorkDir)
                     /\ err' = [type |-> "gr.Error",
                                cause |-> "No receipt folders with PNG pages were found in the ZIP."]
                     /\ UNCHANGED <<tempdir, receipts>>
                ELSE /\ disk' = r.disk
                     /\ tempdir' = WorkDir
                     /\ receipts' = found
                     /\ err' = NoErr
    /\ UNCHANGED <<pc, idx, requests, writes, written, bundle, nCalls>>

SelectedPool == SeqsUpTo(ReceiptNames(receipts) \cup {StaleName}, MaxSelected)

Formats == {"markdown", "json"}

\* convert_selected(tempdir, selected, output_format) up to the loop of app.py:82.
ConvertSelected ==
    /\ pc = "idle"
    /\ nCalls < MaxCalls
    /\ nCalls' = nCalls + 1
    /\ requests' = <<>>
    /\ writes' = <<>>
    /\ LET found == IF tempdir = NoDir THEN <<>> ELSE discover_receipts(disk, tempdir)
       IN  \E selected \in SelectedPool, fmt \in Formats :
               /\ call' = [NoCall EXCEPT !.op = "convert_selected", !.selected = selected,
                                         !.fmt = fmt, !.dest = tempdir]
               /\ IF tempdir = NoDir
                  THEN /\ err' = [type |-> "gr.Error", cause |-> "Upload a ZIP first."]
                       /\ UNCHANGED <<pc, receipts, idx>>
                  ELSE /\ receipts' = found
                       /\ IF selected = <<>>
                          THEN /\ err' = [type |-> "gr.Error",
                                          cause |-> "Select at least one receipt."]
                               /\ UNCHANGED <<pc, idx>>
                          ELSE /\ err' = NoErr
                               /\ pc' = "loop"
                               /\ idx' = 1
    /\ UNCHANGED <<disk, tempdir, written, bundle>>

\* app.py:83-85: a selected name that is no discovered receipt is passed over.
SkipUnknown ==
    /\ pc = "loop"
    /\ idx <= Len(call.selected)
    /\ call.selected[idx] \notin ReceiptNames(receipts)
    /\ idx' = idx + 1
    /\ UNCHANGED <<disk, pc, tempdir, receipts, call, err, requests, writes, written, bundle, nCalls>>

\* _run_model up to its first request (app.py:55-60).
Invoke ==
    /\ pc = "loop"
    /\ idx <= Len(call.selected)
    /\ call.selected[idx] \in ReceiptNames(receipts)
    /\ requests' = Append(requests,
                          [idx |-> idx,
                           req |-> FirstRequest(disk, ReceiptNamed(receipts, call.selected[idx]),
                                                call.fmt),
                           reply |-> Pending])
    /\ pc' = "await1"
    /\ UNCHANGED <<disk, tempdir, receipts, call, err, idx, writes, written, bundle, nCalls>>

\* The reply to the request in flight is recorded.
Replied(content) == [requests EXCEPT ![Len(requests)].reply = content]

\* app.py:87-88: the result is written and the loop moves on.
WriteResult(result) ==
    LET name == ReceiptNamed(receipts, call.selected[idx]).name
        out  == OutputDir(tempdir)
        path == OutputPath(name, call.fmt, out)
    IN  /\ disk' = write_output(disk, name, result, call.fmt, out)
        /\ writes' = Append(writes, [idx |-> idx, name |-> name, path |-> path, content |-> result])
        /\ written' = WriteFile(written, path, result)
        /\ idx' = idx + 1
        /\ pc' = "loop"

\* Reply1 with the test of the parse inverted: structured output is always repaired.
Reply1AlwaysRepairs(content) ==
    /\ pc = "await1"
    /\ LET response == ChatText(content)
       IN  IF call.fmt = "markdown"
           THEN /\ requests' = Replied(content)
                /\ WriteResult(response)
           ELSE /\ requests' = Append(Replied(content),
                                      [idx |-> idx, req |-> RepairRequest(response),
                                       reply |-> Pending])
                /\ pc' = "await2"
                /\ UNCHANGED <<disk, writes, written, idx>>
    /\ UNCHANGED <<tempdir, receipts, call, err, bundle, nCalls>>

\* The first request returns (app.py:58, app.py:60-66).
Reply1(content) ==
    /\ pc = "await1"
    /\ LET response == ChatText(content)
       IN  IF call.fmt = "markdown" \/ JsonLoads(response)
           THEN /\ requests' = Replied(content)
                /\ WriteResult(response)
           ELSE /\ requests' = Append(Replied(content),
                                      [idx |-> idx, req |-> RepairRequest(response),
                                       reply |-> Pending])
                /\ pc' = "await2"
                /\ UNCHANGED <<disk, writes, written, idx>>
    /\ UNCHANGED <<tempdir, receipts, call, err, bundle, nCalls>>

\* Reply2 that parses the repaired text and invokes the model again when it is malformed.
Reply2Revalidating(content) ==
    /\ pc = "await2"
    /\ requests' = Replied(content)
    /\ IF JsonLoads(ChatText(content))
       THEN WriteResult(ChatText(content))
       ELSE /\ pc' = "loop"
            /\ UNCHANGED <<disk, writes, written, idx>>
    /\ UNCHANGED <<tempdir, receipts, call, err, bundle, nCalls>>

\* The repair request returns (app.py:66-67).
Reply2(content) ==
    /\ pc = "await2"
    /\ requests' = Replied(content)
    /\ WriteResult(ChatText(content))
    /\ UNCHANGED <<tempdir, receipts, call, err, bundle, nCalls>>

\* ModelFails with the failure caught per document: the loop goes on.
ModelFailsIsolated ==
    /\ pc \in {"await1", "await2"}
    /\ requests' = Replied(Failure)
    /\ err' = [type |-> "APIError", cause |-> "none"]
    /\ idx' = idx + 1
    /\ pc' = "loop"
    /\ UNCHANGED <<disk, tempdir, receipts, call, writes, written, bundle, nCalls>>

\* The model invocation raises: nothing in _run_model or convert_selected catches it.
ModelFails ==
    /\ pc \in {"await1", "await2"}
    /\ requests' = Replied(Failure)
    /\ err' = [type |-> "APIError", cause |-> "none"]
    /\ pc' = "idle"
    /\ UNCHANGED <<disk, tempdir, receipts, call, idx, writes, written, bundle, nCalls>>

\* Finish that packs only the files this call has written.
FinishOnlyThisCall ==
    /\ pc = "loop"
    /\ idx > Len(call.selected)
    /\ bundle' = build_outputs_zip(
                      [p \in {writes[i].path : i \in 1..Len(writes)} |-> disk[p]],
                      OutputDir(tempdir))
    /\ call' = [call EXCEPT !.built = TRUE]
    /\ pc' = "idle"
    /\ UNCHANGED <<disk, tempdir, receipts, err, idx, requests, writes, written, nCalls>>

\* app.py:90-91: the loop is over and the bundle is built.
Finish ==
    /\ pc = "loop"
    /\ idx > Len(call.selected)
    /\ bundle' = build_outputs_zip(disk, OutputDir(tempdir))
    /\ call' = [call EXCEPT !.built = TRUE]
    /\ pc' = "idle"
    /\ UNCHANGED <<disk, tempdir, receipts, err, idx, requests, writes, written, nCalls>>

Next ==
    \/ \E zip \in UploadArchives \cup {NoZip} : LoadZip(zip)
    \/ ConvertSelected
    \/ SkipUnknown
    \/ Invoke
    \/ \E content \in ModelContents : Reply1(content)
    \/ \E content \in ModelContents : Reply2(content)
    \/ ModelFails
    \/ Finish

Spec == Init /\ [][Next]_vars

NextExtract ==
    \/ \E zip \in ExtractArchives, dest \in DestRoots : SafeExtractZipCall(zip, dest)
    \/ \E zip \in ExtractArchives : LoadZip(zip)

SpecExtract == Init /\ [][NextExtract]_vars


(***************************************************************************)
(* discover_receipts called on a directory tree.                           *)
(***************************************************************************)

DataRoot == <<<<"d", "a", "t", "a">>>>

GroupDir == <<<<"d", "a", "t", "a">>, <<"g">>>>

\* A regular file directly under the root: no directory, so no group.
TopFile == <<<<"d", "a", "t", "a">>, <<"t", "o", "p", ".", "p", "n", "g">>>>

FileNames ==
    {<<"a", "_", "p", "a", "g", "e", "2", ".", "p", "n", "g">>,
     <<"a", "_", "p", "a", "g", "e", "1", ".", "p", "n", "g">>,
     <<"a", "_", "p", "a", "g", "e", "1", "0", ".", "p", "n", "g">>,
     <<"i", "m", "g", "_", "3", ".", "p", "n", "g">>,
     <<"i", "m", "g", "_", "1", "0", ".", "p", "n", "g">>,
     <<"i", "m", "g", "_", "2", ".", "p", "n", "g">>,
     <<"c", "o", "v", "e", "r", ".", "p", "n", "g">>,
     <<"x", ".", "P", "n", "g">>,
     <<"s", ".", "P", "N", "G">>,
     <<"p", "a", "g", "e", "3", "_", "v", "9", ".", "p", "n", "g">>,
     <<"v", "1", "_", "i", "m", "g", "7", ".", "p", "n", "g">>,
     <<"n", "o", "t", "e", "s", ".", "t", "x", "t">>,
     <<"P", "a", "g", "e", "-", "4", ".", "p", "n", "g">>}

MaxPages == 3

InitDiscover ==
    /\ \E names \in {S \in SUBSET FileNames : Cardinality(S) <= MaxPages} :
           disk = [p \in {Append(GroupDir, n) : n \in names} \cup {TopFile} |-> "img"]
    /\ pc = "idle"
    /\ tempdir = NoDir
    /\ receipts = <<>>
    /\ call = NoCall
    /\ err = NoErr
    /\ idx = 0
    /\ requests = <<>>
    /\ writes = <<>>
    /\ written = <<>>
    /\ bundle = <<>>
    /\ nCalls = 0

\* A direct call of receipt_io.discover_receipts(root).
DiscoverReceiptsCall ==
    /\ call.op = "none"
    /\ receipts' = discover_receipts(disk, DataRoot)
    /\ call' = [NoCall EXCEPT !.op = "discover_receipts", !.dest = DataRoot]
    /\ UNCHANGED <<disk, pc, tempdir, err, idx, requests, writes, written, bundle, nCalls>>

NextDiscover == DiscoverReceiptsCall

SpecDiscover == InitDiscover /\ [][NextDiscover]_vars


(***************************************************************************)
(* Properties of safe_extract_zip and load_zip (SpecExtract).              *)
(***************************************************************************)

\* The member's resolved destination lies outside the resolved root.
Escapes(dest, filename) == ~IsPrefix(Resolve(dest), Resolve(PathOf(dest, filename)))

EscapingMembers == {i \in 1..Len(call.zip) : Escapes(call.dest, call.zip[i].filename)}

\* C1: after safe_extract_zip on an archive with a member that resolves outside
\* the destination root, the call has failed with the traversal error and the
\* file of that member does not exist at the place it resolves to.
C1_EscapingMemberIsRefused ==
    (call.op = "safe_extract_zip" /\ EscapingMembers # {})
        => /\ err.type = TraversalError
           /\ \A i \in EscapingMembers :
                  Resolve(PathOf(call.dest, call.zip[i].filename)) \notin DOMAIN disk

\* C2: a call that ends in the traversal error has written nothing: after
\* safe_extract_zip the disk is what it was before the call, earlier safe
\* members included, and after load_zip nothing is left under the working
\* directory.
C2_NoPartialExtraction ==
    [][(call' # call \/ err' # err \/ disk' # disk)
          => /\ (call'.op = "safe_extract_zip" /\ err'.type = TraversalError)
                    => disk' = disk
             /\ (call'.op = "load_zip" /\ err'.cause = TraversalError)
                    => /\ \A p \in DOMAIN disk' : ~IsPrefix(WorkDir, p)
                       /\ tempdir' = tempdir]_vars

\* C2 witness: safe_extract_zip refused an archive whose first member is safe.
C2_Witness ==
    /\ call.op = "safe_extract_zip"
    /\ err.type = TraversalError
    /\ Len(call.zip) > 1
    /\ ~MemberRefused(call.dest, call.zip[1].filename)

(***************************************************************************)
(* Properties of discover_receipts (SpecDiscover).                         *)
(***************************************************************************)

PageNames(group) == [i \in 1..Len(group.pages) |-> Name(group.pages[i])]

NameSet(group) == {Name(group.pages[i]) : i \in 1..Len(group.pages)}

HasDigit(s) == \E i \in 1..Len(s) : IsDigit(s[i])

Before(group, a, b) ==
    \E i, j \in 1..Len(group.pages) :
        i < j /\ Name(group.pages[i]) = a /\ Name(group.pages[j]) = b

\* C5: in every discovered group the pages ascend by (n, filename): the number
\* after "page" where the stem has one, else its last digit run, else infinity.
\* a_page1 < a_page2 < a_page10; img_2 < img_3 < img_10; page3_v9 (n = 3)
\* comes before Page-4 (n = 4) and v1_img7 (n = 7); a file without digits
\* comes after every numbered file.
C5_PagesSortedByKey ==
    call.op = "discover_receipts" =>
        \A g \in 1..Len(receipts) :
            LET group == receipts[g]
                names == NameSet(group)
            IN  /\ \A i, j \in 1..Len(group.pages) :
                       i < j => KeyLess(page_sort_key(Name(group.pages[i])),
                                        page_sort_key(Name(group.pages[j])))
                /\ names = {<<"a", "_", "p", "a", "g", "e", "2", ".", "p", "n", "g">>, <<"a", "_", "p", "a", "g", "e", "1", ".", "p", "n", "g">>, <<"a", "_", "p", "a", "g", "e", "1", "0", ".", "p", "n", "g">>}
                       => PageNames(group) = <<<<"a", "_", "p", "a", "g", "e", "1", ".", "p", "n", "g">>, <<"a", "_", "p", "a", "g", "e", "2", ".", "p", "n", "g">>, <<"a", "_", "p", "a", "g", "e", "1", "0", ".", "p", "n", "g">>>>
                /\ names = {<<"i", "m", "g", "_", "3", ".", "p", "n", "g">>, <<"i", "m", "g", "_", "1", "0", ".", "p", "n", "g">>, <<"i", "m", "g", "_", "2", ".", "p", "n", "g">>}
                       => PageNames(group) = <<<<"i", "m", "g", "_", "2", ".", "p", "n", "g">>, <<"i", "m", "g", "_", "3", ".", "p", "n", "g">>, <<"i", "m", "g", "_", "1", "0", ".", "p", "n", "g">>>>
                /\ {<<"p", "a", "g", "e", "3", "_", "v", "9", ".", "p", "n", "g">>, <<"v", "1", "_", "i", "m", "g", "7", ".", "p", "n", "g">>} \subseteq names
                       => Before(group, <<"p", "a", "g", "e", "3", "_", "v", "9", ".", "p", "n", "g">>, <<"v", "1", "_", "i", "m", "g", "7", ".", "p", "n", "g">>)
                /\ {<<"p", "a", "g", "e", "3", "_", "v", "9", ".", "p", "n", "g">>, <<"P", "a", "g", "e", "-", "4", ".", "p", "n", "g">>} \subseteq names
                       => Before(group, <<"p", "a", "g", "e", "3", "_", "v", "9", ".", "p", "n", "g">>, <<"P", "a", "g", "e", "-", "4", ".", "p", "n", "g">>)
                /\ \A n \in {m \in names : HasDigit(Stem(m))} :
                       <<"c", "o", "v", "e", "r", ".", "p", "n", "g">> \in names
                           => Before(group, n, <<"c", "o", "v", "e", "r", ".", "p", "n", "g">>)

\* C5 witness: a group of the three pages a_page2, a_page1, a_page10 was discovered.
C5_Witness ==
    /\ call.op = "discover_receipts"
    /\ \E g \in 1..Len(receipts) :
           NameSet(receipts[g]) = {<<"a", "_", "p", "a", "g", "e", "2", ".", "p", "n", "g">>, <<"a", "_", "p", "a", "g", "e", "1", ".", "p", "n", "g">>, <<"a", "_", "p", "a", "g", "e", "1", "0", ".", "p", "n", "g">>}

\* The regular files of a directory whose extension is ".png" in any letter case.
PngFilesAnyCase(d, dir) ==
    {p \in IterDir(d, dir) :
        IsFile(d, p) /\ LowerStr(Suffix(Name(p))) = <<".", "p", "n", "g">>}

\* C6: the pages of a group are the regular files of its directory whose
\* extension is ".png" in any letter case, and a directory is left out exactly
\* when it has no such file.
C6_PngInAnyCaseIsCollected ==
    call.op = "discover_receipts" =>
        \A e \in {x \in IterDir(disk, DataRoot) : IsDir(disk, x)} :
            /\ (Name(e) \in ReceiptNames(receipts)) <=> (PngFilesAnyCase(disk, e) # {})
            /\ \A g \in 1..Len(receipts) :
                   receipts[g].name = Name(e) =>
                       {receipts[g].pages[i] : i \in 1..Len(receipts[g].pages)}
                           = PngFilesAnyCase(disk, e)


(***************************************************************************)
(* Properties of _run_model and convert_selected (Spec).                   *)
(***************************************************************************)

\* The request is the first one made for its document.
FirstOfDoc(k) == k = 1 \/ requests[k - 1].idx # requests[k].idx

\* The request has returned a text.
Answered(k) == requests[k].reply \notin {Pending, Failure}

RequestsOf(i) == {j \in 1..Len(requests) : requests[j].idx = i}

WrittenFor(i, content) ==
    \E w \in 1..Len(writes) : writes[w].idx = i /\ writes[w].content = content

\* C3: in json mode, once the first response of a document has failed to parse,
\* the document has exactly one more request, the repair request: its text is
\* JSON_REPAIR_PROMPT, a blank line and the malformed response, and it has no
\* images.  The text it returns is the document's result as it is, well-formed
\* or not, and the document never has a third request.
C3_OneRepairNoImages ==
    call.fmt = "json" =>
        \A k \in 1..Len(requests) :
            (FirstOfDoc(k) /\ Answered(k) /\ ~JsonLoads(ChatText(requests[k].reply)))
                => /\ RequestsOf(requests[k].idx) = {k, k + 1}
                   /\ k + 1 <= Len(requests)
                   /\ requests[k + 1].req.text
                          = <<JSON_REPAIR_PROMPT, "\n\n", ChatText(requests[k].reply)>>
                   /\ requests[k + 1].req.images = <<>>
                   /\ requests[k + 1].reply = Pending => (pc = "await2" /\ idx = requests[k].idx)
                   /\ Answered(k + 1)
                          => /\ WrittenFor(requests[k].idx, ChatText(requests[k + 1].reply))
                             /\ idx > requests[k].idx

\* C3 witness: a repair request returned malformed text and that text was written.
C3_Witness ==
    /\ call.fmt = "json"
    /\ \E k \in 1..Len(requests) :
           /\ ~FirstOfDoc(k)
           /\ Answered(k)
           /\ ~JsonLoads(ChatText(requests[k].reply))
           /\ WrittenFor(requests[k].idx, ChatText(requests[k].reply))

\* C4: in json mode, once the first response of a document has parsed, that
\* response is the document's result unchanged and the request that returned it
\* is the document's only request; it carries the prompt and the data URL of
\* every page of the document, in page order.
C4_ValidResponseReturnedUnchanged ==
    call.fmt = "json" =>
        \A k \in 1..Len(requests) :
            (FirstOfDoc(k) /\ Answered(k) /\ JsonLoads(ChatText(requests[k].reply)))
                => LET i     == requests[k].idx
                       name  == call.selected[i]
                       pages == ReceiptNamed(receipts, name).pages
                   IN  /\ RequestsOf(i) = {k}
                       /\ WrittenFor(i, requests[k].reply)
                       /\ idx > i
                       /\ requests[k].req.text = build_prompt(name, "json")
                       /\ requests[k].req.images
                              = [n \in 1..Len(pages) |-> encode_image_to_data_url(disk, pages[n])]
                       /\ {pages[n] : n \in 1..Len(pages)}
                              = {p \in IterDir(disk, Append(tempdir, name)) : IsPage(disk, p)}

\* C4 witness: a document of two pages got a well-formed first response.
C4_Witness ==
    /\ call.fmt = "json"
    /\ \E k \in 1..Len(requests) :
           /\ FirstOfDoc(k)
           /\ Answered(k)
           /\ JsonLoads(ChatText(requests[k].reply))
           /\ Len(requests[k].req.images) = 2

BundleEntries(name) == {i \in 1..Len(bundle) : bundle[i].name = name}

\* C7: the bundle a convert_selected call builds has, for every file write_output
\* has produced in the working directory in this call or an earlier one, exactly
\* one entry of that name, and it holds the content last written to the file.
C7_BundleAccumulates ==
    (call.op = "convert_selected" /\ call.built) =>
        \A p \in DOMAIN written :
            /\ Cardinality(BundleEntries(Name(p))) = 1
            /\ \A i \in BundleEntries(Name(p)) : bundle[i].content = written[p]

\* C7 witness: a bundle was built that holds a file an earlier call wrote, after
\* this call wrote one of its files twice with different contents.
C7_Witness ==
    /\ call.op = "convert_selected"
    /\ call.built
    /\ \E p \in DOMAIN written : \A w \in 1..Len(writes) : writes[w].path # p
    /\ \E v, w \in 1..Len(writes) :
           v < w /\ writes[v].path = writes[w].path /\ writes[v].content # writes[w].content

\* C8: the documents of a batch are handled one after another in the selected
\* order, and once the model invocation has failed for the document at position
\* idx the call is over: that document and the later ones have no output of this
\* call, the later ones have no request, no bundle was built, and the outputs of
\* the documents before it are on disk.
C8_FailureAbortsBatch ==
    call.op = "convert_selected" =>
        /\ \A v, w \in 1..Len(writes) : v < w => writes[v].idx < writes[w].idx
        /\ \A j, k \in 1..Len(requests) : j < k => requests[j].idx <= requests[k].idx
        /\ \A w \in 1..Len(writes) :
               writes[w].idx < idx /\ writes[w].name = call.selected[writes[w].idx]
        /\ \A k \in 1..Len(requests) : requests[k].idx <= idx
        /\ err.type = "APIError" =>
               /\ pc = "idle"
               /\ ~call.built
               /\ idx <= Len(call.selected)
               /\ requests[Len(requests)].idx = idx
               /\ requests[Len(requests)].reply = Failure
               /\ \A i \in 1..(idx - 1) :
                      call.selected[i] \in ReceiptNames(receipts)
                          => \E w \in 1..Len(writes) : writes[w].idx = i
               /\ \A w \in 1..Len(writes) :
                      /\ writes[w].path \in DOMAIN disk
                      /\ (\A v \in (w + 1)..Len(writes) : writes[v].path # writes[w].path)
                             => disk[writes[w].path] = writes[w].content

\* C8 witness: the invocation failed for the second of two documents after the
\* first one was written.
C8_Witness ==
    /\ call.op = "convert_selected"
    /\ err.type = "APIError"
    /\ idx = 2
    /\ Len(call.selected) = 2
    /\ Len(writes) = 1

\* C9: within one batch, two documents with different names are written to
\* different files.
C9_DistinctNamesDistinctFiles ==
    \A v, w \in 1..Len(writes) :
        writes[v].name # writes[w].name => writes[v].path # writes[w].path

\* C10: every entry of a bundle is a file write_output has produced in the
\* working directory.
C10_BundleHoldsOnlyOutputs ==
    (call.op = "convert_selected" /\ call.built) =>
        \A i \in 1..Len(bundle) :
            \E p \in DOMAIN written :
                Name(p) = bundle[i].name /\ written[p] = bundle[i].content

=============================================================================
